---------------------------- MODULE Spec2Model ----------------------------
(***************************************************************************)
(* Model of the two Earth Engine tile-URL scripts                          *)
(*   scripts/generate_gee_tiles.py       (single layer: census tracts)     *)
(*   scripts/generate_gee_tiles_full.py  (tracts, then block groups)       *)
(*                                                                         *)
(* The remote platform (module ee) is the environment: every call to it    *)
(* either returns or raises, chosen nondeterministically the first time    *)
(* the call is made and replayed when the entry point is run again with    *)
(* the same responses.  Python values are modelled by tagged records and   *)
(* dicts by their insertion-ordered list of <<key, value>> entries, so     *)
(* that json.dumps is computed on what the code hands to it.  The          *)
(* non-ASCII glyphs that open some diagnostic lines are left out of the    *)
(* strings.                                                                *)
(***************************************************************************)
EXTENDS Integers, Sequences, FiniteSets, TLC

(* ------------------------------ bounds -------------------------------- *)
\* how many distinct tile URL templates the platform may answer with
NumUrls == 2
\* how many distinct map identifiers the platform may answer with
NumMapIds == 2
\* how many times the entry point is run with the same responses
MaxRuns == 2

(* ------------------------- program constants -------------------------- *)
SERVICE_ACCOUNT == "882446104421-compute@developer.gserviceaccount.com"
PROJECT_ID == "msads-mba-autumn-2025-team-1"
TRACTS_DATASET == "TIGER/2010/Tracts_DP1"
TRACTS_COLOR == "1f77b4"
BG_COLOR == "9333ea"
\* the block-group candidates in the order get_block_groups_layer tries them
BG_CANDIDATES == <<"TIGER/2010/BG", "TIGER/2010/BlockGroups", "TIGER/2010/Blocks_DP1">>
UNKNOWN_MAP_ID == "unknown"

NoSession == ""
Running == -1

(* --------------------------- Python values ---------------------------- *)
PyBool(b) == [t |-> "bool", b |-> b]
PyStr(s) == [t |-> "str", s |-> s]
PyDict(d) == [t |-> "dict", d |-> d]
PyObj(attrs) == [t |-> "obj", attrs |-> attrs]

\* k in d
HasKey(d, k) == \E i \in 1..Len(d) : d[i][1] = k
\* d[k], for a key that is present
getitem(d, k) == d[CHOOSE i \in 1..Len(d) : d[i][1] = k][2]
\* d.get(k, default)
dict_get(d, k, default) == IF HasKey(d, k) THEN getitem(d, k) ELSE default
\* d[k] = v : an existing key keeps its position, a new key goes last
setitem(d, k, v) ==
    IF HasKey(d, k)
    THEN [i \in 1..Len(d) |-> IF d[i][1] = k THEN <<k, v>> ELSE d[i]]
    ELSE Append(d, <<k, v>>)

\* json encoding of a scalar; the strings of this model hold no character
\* that json escapes
json_scalar(v) ==
    IF v.t = "bool" THEN (IF v.b THEN "true" ELSE "false")
    ELSE "\"" \o v.s \o "\""

RECURSIVE json_members(_, _)
json_members(d, i) ==
    IF i > Len(d) THEN ""
    ELSE "  \"" \o d[i][1] \o "\": " \o json_scalar(d[i][2])
         \o (IF i < Len(d) THEN ",\n" ELSE "\n")
         \o json_members(d, i + 1)

\* json.dumps(d, indent=2) of a flat dict
json_dumps(d) == IF Len(d) = 0 THEN "{}" ELSE "{\n" \o json_members(d, 1) \o "}"

(* ------------------------- the remote platform ------------------------ *)
Urls == { "https://earthengine.example/v1/maps/" \o ToString(i) \o "/tiles/{z}/{x}/{y}"
            : i \in 1..NumUrls }
MapIds == { "projects/earthengine/maps/" \o ToString(i) : i \in 1..NumMapIds }

Call(op, arg) == [op |-> op, arg |-> arg]
Return(v) == [raised |-> FALSE, msg |-> "", value |-> v]
Raise(msg) == [raised |-> TRUE, msg |-> msg, value |-> <<>>]

\* a call that returns a handle or raises
SimpleResponses(call) ==
    { Return(<<>>), Raise("EEException: " \o call.op \o " failed for " \o call.arg) }

\* the dicts getMapId may answer with: 'tile_fetcher' absent, present
\* without url_format, or present with a URL template; 'mapid' absent or
\* present
TileFetcherEntries ==
    { <<>>, << <<"tile_fetcher", PyObj(<<>>)>> >> }
    \cup { << <<"tile_fetcher", PyObj(<< <<"url_format", PyStr(u)>> >>)>> >> : u \in Urls }
MapIdEntries == { <<>> } \cup { << <<"mapid", PyStr(m)>> >> : m \in MapIds }
MapIdDicts == { tf \o mi : tf \in TileFetcherEntries, mi \in MapIdEntries }
GetMapIdResponses(call) ==
    { Return(d) : d \in MapIdDicts }
    \cup { Raise("EEException: getMapId failed for " \o call.arg) }

VARIABLES
    script,     \* which script is run: "single" or "full"
    run,        \* number of the current run of the entry point
    history,    \* stdout and exit code of the completed earlier runs
    env,        \* the platform's responses, by call
    pc,         \* position in the script
    session,    \* ee's process-global session
    opLog,      \* the remote operations of the current run, in order
    sys,        \* sys.stdout and sys.stderr of the current run
    exitCode,   \* exit code of the current run, Running until it ends
    layer,      \* the feature collection / styled layer being built
    results,    \* generate_tile_urls: results
    result,     \* main: result
    dumps       \* number of json.dumps calls made by the current run

vars == <<script, run, history, env, pc, session, opLog, sys, exitCode,
          layer, results, result, dumps>>

\* the responses a call may get: the recorded one if the call was made before
Responses(call, domain) == IF call \in DOMAIN env THEN {env[call]} ELSE domain
Recorded(call, r) == IF call \in DOMAIN env THEN env ELSE env @@ (call :> r)
Logged(call, r) == Append(opLog, [op |-> call.op, arg |-> call.arg, raised |-> r.raised])

\* print(text) without file=sys.stderr
print_to_stdout(streams, file, text) == [streams EXCEPT !["stdout"] = Append(@, text)]

\* print(text, file=...)
print_to(streams, file, text) == [streams EXCEPT ![file] = Append(@, text)]

NoLayer == [dataset |-> "", styled |-> FALSE, color |-> ""]

Init ==
    /\ script \in {"single", "full"}
    /\ run = 1
    /\ history = <<>>
    /\ env = <<>>
    /\ pc = "credentials"
    /\ session = NoSession
    /\ opLog = <<>>
    /\ sys = [stdout |-> <<>>, stderr |-> <<>>]
    /\ exitCode = Running
    /\ layer = NoLayer
    /\ results = <<>>
    /\ result = <<>>
    /\ dumps = 0

(* --------------------------- authenticate_gee ------------------------- *)
\* the except branch of authenticate_gee, trying the authentication once more
auth_failed_retry(e) ==
    /\ sys' = print_to(sys, "stderr", "Failed to authenticate with GEE: " \o e)
    /\ IF Len(opLog) < 2
       THEN pc' = "credentials" /\ UNCHANGED exitCode
       ELSE pc' = "done" /\ exitCode' = 1
    /\ UNCHANGED session

\* the except branch of authenticate_gee
auth_failed(e) ==
    /\ sys' = print_to(sys, "stderr", "Failed to authenticate with GEE: " \o e)
    /\ exitCode' = 1
    /\ pc' = "done"
    /\ UNCHANGED session

\* ee.ServiceAccountCredentials(SERVICE_ACCOUNT, CREDENTIALS_PATH)
ServiceAccountCredentials ==
    /\ pc = "credentials"
    /\ LET call == Call("ServiceAccountCredentials", SERVICE_ACCOUNT) IN
       \E r \in Responses(call, SimpleResponses(call)) :
          /\ env' = Recorded(call, r)
          /\ opLog' = Logged(call, r)
          /\ IF r.raised
             THEN auth_failed(r.msg)
             ELSE /\ pc' = "initialize"
                  /\ UNCHANGED <<sys, exitCode, session>>
    /\ UNCHANGED <<script, run, history, dumps, layer, results, result>>

\* authenticate_gee with `return True` in the except branch as well
authenticate_gee_always_true(r, sess) == TRUE

\* authenticate_gee with an early bare `return` when ee already has a session
authenticate_gee_once(r, sess) == IF sess # NoSession THEN FALSE ELSE ~r.raised

\* what authenticate_gee returns once ee.Initialize has answered r
authenticate_gee(r, sess) == ~r.raised

\* ee.Initialize(credentials, project=PROJECT_ID), the rest of
\* authenticate_gee, and main up to the call that generates the URLs
Initialize ==
    /\ pc = "initialize"
    /\ LET call == Call("Initialize", PROJECT_ID) IN
       \E r \in Responses(call, SimpleResponses(call)) :
          /\ env' = Recorded(call, r)
          /\ opLog' = Logged(call, r)
          /\ IF ~authenticate_gee(r, session)
             THEN auth_failed(r.msg)
             ELSE /\ session' = PROJECT_ID
                  /\ sys' = print_to(
                              print_to(sys, "stderr",
                                 "Successfully authenticated with Google Earth Engine"),
                              "stderr",
                              IF script = "single"
                              THEN "Generating GEE tile URL for census tract boundaries..."
                              ELSE "\nGenerating GEE tile URLs for TIGER/2010 boundaries...\n")
                  /\ pc' = "tracts_fetch"
                  /\ UNCHANGED exitCode
    /\ UNCHANGED <<script, run, history, dumps, layer, results, result>>

(* ------------------- shared pieces of the two scripts ------------------ *)
\* the except clause handing back the layers resolved so far with the error
gen_failed_partial(e) ==
    /\ result' = << <<"success", PyBool(FALSE)>>, <<"error", PyStr(e)>>,
                    <<"data", PyDict(results)>> >>
    /\ pc' = "report"

\* except Exception as e: return {'success': False, 'error': str(e)}
gen_failed(e) ==
    /\ result' = << <<"success", PyBool(FALSE)>>, <<"error", PyStr(e)>> >>
    /\ pc' = "report"

\* the same with d['mapid'] in place of d.get('mapid', 'unknown')
tile_result_strict(d) ==
    IF ~HasKey(d, "tile_fetcher")
    THEN [raised |-> TRUE, msg |-> "'tile_fetcher'", tile_url |-> PyStr(""), map_id |-> PyStr("")]
    ELSE IF ~HasKey(getitem(d, "tile_fetcher").attrs, "url_format")
    THEN [raised |-> TRUE, msg |-> "'TileFetcher' object has no attribute 'url_format'",
          tile_url |-> PyStr(""), map_id |-> PyStr("")]
    ELSE IF ~HasKey(d, "mapid")
    THEN [raised |-> TRUE, msg |-> "'mapid'", tile_url |-> PyStr(""), map_id |-> PyStr("")]
    ELSE [raised |-> FALSE, msg |-> "",
          tile_url |-> getitem(getitem(d, "tile_fetcher").attrs, "url_format"),
          map_id |-> getitem(d, "mapid")]

\* the tile URL and map id taken from getMapId's dict d:
\*   d['tile_fetcher'].url_format   and   d.get('mapid', 'unknown')
\* raised tells whether the subscript or the attribute access raises
tile_result(d) ==
    IF ~HasKey(d, "tile_fetcher")
    THEN [raised |-> TRUE, msg |-> "'tile_fetcher'", tile_url |-> PyStr(""), map_id |-> PyStr("")]
    ELSE IF ~HasKey(getitem(d, "tile_fetcher").attrs, "url_format")
    THEN [raised |-> TRUE, msg |-> "'TileFetcher' object has no attribute 'url_format'",
          tile_url |-> PyStr(""), map_id |-> PyStr("")]
    ELSE [raised |-> FALSE, msg |-> "",
          tile_url |-> getitem(getitem(d, "tile_fetcher").attrs, "url_format"),
          map_id |-> dict_get(d, "mapid", PyStr(UNKNOWN_MAP_ID))]

\* ee.FeatureCollection(dataset)
FeatureCollection(dataset) == [dataset |-> dataset, styled |-> FALSE, color |-> ""]
\* collection.style(color=..., width=1, fillColor='00000000')
style(collection, color) == [collection EXCEPT !.styled = TRUE, !.color = color]

(* ----------------------- generate_gee_tiles.py ------------------------ *)
\* generate_tile_url -> get_census_tracts_layer: ee.FeatureCollection(...)
S_tracts_fetch ==
    /\ script = "single" /\ pc = "tracts_fetch"
    /\ LET call == Call("FeatureCollection", TRACTS_DATASET) IN
       \E r \in Responses(call, SimpleResponses(call)) :
          /\ env' = Recorded(call, r)
          /\ opLog' = Logged(call, r)
          /\ IF r.raised
             THEN gen_failed(r.msg) /\ UNCHANGED layer
             ELSE /\ layer' = FeatureCollection(TRACTS_DATASET)
                  /\ pc' = "tracts_style"
                  /\ UNCHANGED result
    /\ UNCHANGED <<script, run, history, dumps, session, sys, exitCode, results>>

\* get_census_tracts_layer: tracts.style(...)
S_tracts_style ==
    /\ script = "single" /\ pc = "tracts_style"
    /\ LET call == Call("style", layer.dataset) IN
       \E r \in Responses(call, SimpleResponses(call)) :
          /\ env' = Recorded(call, r)
          /\ opLog' = Logged(call, r)
          /\ IF r.raised
             THEN gen_failed(r.msg) /\ UNCHANGED layer
             ELSE /\ layer' = style(layer, TRACTS_COLOR)
                  /\ pc' = "tracts_getMapId"
                  /\ UNCHANGED result
    /\ UNCHANGED <<script, run, history, dumps, session, sys, exitCode, results>>

\* generate_tile_url: layer.getMapId() and the returned dict
S_getMapId ==
    /\ script = "single" /\ pc = "tracts_getMapId"
    /\ LET call == Call("getMapId", layer.dataset) IN
       \E r \in Responses(call, GetMapIdResponses(call)) :
          /\ env' = Recorded(call, r)
          /\ opLog' = Logged(call, r)
          /\ IF r.raised
             THEN gen_failed(r.msg)
             ELSE LET tr == tile_result(r.value) IN
                  IF tr.raised
                  THEN gen_failed(tr.msg)
                  ELSE /\ result' = << <<"success", PyBool(TRUE)>>,
                                       <<"tile_url", tr.tile_url>>,
                                       <<"map_id", tr.map_id>> >>
                       /\ pc' = "report"
    /\ UNCHANGED <<script, run, history, dumps, session, sys, exitCode, layer, results>>

\* main: the branch on result['success']
S_main_report ==
    /\ script = "single" /\ pc = "report"
    /\ IF getitem(result, "success").b
       THEN /\ sys' = print_to(print_to(sys, "stderr", "Tile URL generated successfully"),
                               "stdout", json_dumps(result))
            /\ dumps' = dumps + 1
            /\ exitCode' = 0
       ELSE /\ sys' = print_to(sys, "stderr",
                               "Failed to generate tile URL: " \o getitem(result, "error").s)
            /\ exitCode' = 1
            /\ UNCHANGED dumps
    /\ pc' = "done"
    /\ UNCHANGED <<script, run, history, env, session, opLog, layer, results, result>>

(* --------------------- generate_gee_tiles_full.py --------------------- *)
\* generate_tile_urls: results = {}, then get_census_tracts_layer's fetch
F_tracts_fetch ==
    /\ script = "full" /\ pc = "tracts_fetch"
    /\ results' = <<>>
    /\ sys' = print_to(sys, "stderr", "Generating tile URL for census tracts...")
    /\ LET call == Call("FeatureCollection", TRACTS_DATASET) IN
       \E r \in Responses(call, SimpleResponses(call)) :
          /\ env' = Recorded(call, r)
          /\ opLog' = Logged(call, r)
          /\ IF r.raised
             THEN gen_failed(r.msg) /\ UNCHANGED layer
             ELSE /\ layer' = FeatureCollection(TRACTS_DATASET)
                  /\ pc' = "tracts_style"
                  /\ UNCHANGED result
    /\ UNCHANGED <<script, run, history, dumps, session, exitCode>>

\* get_census_tracts_layer: tracts.style(...)
F_tracts_style ==
    /\ script = "full" /\ pc = "tracts_style"
    /\ LET call == Call("style", layer.dataset) IN
       \E r \in Responses(call, SimpleResponses(call)) :
          /\ env' = Recorded(call, r)
          /\ opLog' = Logged(call, r)
          /\ IF r.raised
             THEN gen_failed(r.msg) /\ UNCHANGED layer
             ELSE /\ layer' = style(layer, TRACTS_COLOR)
                  /\ pc' = "tracts_getMapId"
                  /\ UNCHANGED result
    /\ UNCHANGED <<script, run, history, dumps, session, sys, exitCode, results>>

\* the tracts step with the tile fetcher read leniently: a dict without a
\* URL template does not stop the run
F_tracts_getMapId_lenient ==
    /\ script = "full" /\ pc = "tracts_getMapId"
    /\ LET call == Call("getMapId", layer.dataset) IN
       \E r \in Responses(call, GetMapIdResponses(call)) :
          /\ env' = Recorded(call, r)
          /\ opLog' = Logged(call, r)
          /\ IF r.raised
             THEN gen_failed(r.msg) /\ UNCHANGED <<results, sys>>
             ELSE LET tr == tile_result(r.value) IN
                  /\ results' = setitem(results, "tracts",
                                   PyDict(<< <<"tile_url", tr.tile_url>>,
                                             <<"map_id", tr.map_id>> >>))
                  /\ sys' = print_to(print_to(sys, "stderr", "Census tracts tile URL generated"),
                                          "stderr", "Generating tile URL for block groups...")
                  /\ pc' = "bg_fetch_1"
                  /\ UNCHANGED result
    /\ UNCHANGED <<script, run, history, dumps, session, exitCode, layer>>

\* generate_tile_urls: tracts_layer.getMapId(), results['tracts'] and the
\* progress lines up to the call of get_block_groups_layer
F_tracts_getMapId ==
    /\ script = "full" /\ pc = "tracts_getMapId"
    /\ LET call == Call("getMapId", layer.dataset) IN
       \E r \in Responses(call, GetMapIdResponses(call)) :
          /\ env' = Recorded(call, r)
          /\ opLog' = Logged(call, r)
          /\ IF r.raised
             THEN gen_failed(r.msg) /\ UNCHANGED <<results, sys>>
             ELSE LET tr == tile_result(r.value) IN
                  IF tr.raised
                  THEN gen_failed(tr.msg) /\ UNCHANGED <<results, sys>>
                  ELSE /\ results' = setitem(results, "tracts",
                                        PyDict(<< <<"tile_url", tr.tile_url>>,
                                                  <<"map_id", tr.map_id>> >>))
                       /\ sys' = print_to(print_to(sys, "stderr", "Census tracts tile URL generated"),
                                          "stderr", "Generating tile URL for block groups...")
                       /\ pc' = "bg_fetch_1"
                       /\ UNCHANGED result
    /\ UNCHANGED <<script, run, history, dumps, session, exitCode, layer>>

\* the first try falling back to the last candidate instead of the second
F_bg_fetch_BG_skips ==
    /\ script = "full" /\ pc = "bg_fetch_1"
    /\ LET call == Call("FeatureCollection", BG_CANDIDATES[1]) IN
       \E r \in Responses(call, SimpleResponses(call)) :
          /\ env' = Recorded(call, r)
          /\ opLog' = Logged(call, r)
          /\ IF r.raised
             THEN /\ pc' = "bg_fetch_3"
                  /\ UNCHANGED <<layer, sys>>
             ELSE /\ layer' = FeatureCollection(BG_CANDIDATES[1])
                  /\ sys' = print_to(sys, "stderr", "Using TIGER/2010/BG dataset")
                  /\ pc' = "bg_style"
    /\ UNCHANGED <<script, run, history, dumps, session, exitCode, results, result>>

\* get_block_groups_layer, first try: ee.FeatureCollection('TIGER/2010/BG')
F_bg_fetch_BG ==
    /\ script = "full" /\ pc = "bg_fetch_1"
    /\ LET call == Call("FeatureCollection", BG_CANDIDATES[1]) IN
       \E r \in Responses(call, SimpleResponses(call)) :
          /\ env' = Recorded(call, r)
          /\ opLog' = Logged(call, r)
          /\ IF r.raised
             THEN /\ pc' = "bg_fetch_2"
                  /\ UNCHANGED <<layer, sys>>
             ELSE /\ layer' = FeatureCollection(BG_CANDIDATES[1])
                  /\ sys' = print_to(sys, "stderr", "Using TIGER/2010/BG dataset")
                  /\ pc' = "bg_style"
    /\ UNCHANGED <<script, run, history, dumps, session, exitCode, results, result>>

\* get_block_groups_layer, fallback: ee.FeatureCollection('TIGER/2010/BlockGroups')
F_bg_fetch_BlockGroups ==
    /\ script = "full" /\ pc = "bg_fetch_2"
    /\ LET call == Call("FeatureCollection", BG_CANDIDATES[2]) IN
       \E r \in Responses(call, SimpleResponses(call)) :
          /\ env' = Recorded(call, r)
          /\ opLog' = Logged(call, r)
          /\ IF r.raised
             THEN /\ pc' = "bg_fetch_3"
                  /\ UNCHANGED <<layer, sys>>
             ELSE /\ layer' = FeatureCollection(BG_CANDIDATES[2])
                  /\ sys' = print_to(sys, "stderr", "Using TIGER/2010/BlockGroups dataset")
                  /\ pc' = "bg_style"
    /\ UNCHANGED <<script, run, history, dumps, session, exitCode, results, result>>

\* get_block_groups_layer, last resort: ee.FeatureCollection('TIGER/2010/Blocks_DP1');
\* an exception here leaves both handlers and reaches generate_tile_urls
F_bg_fetch_Blocks ==
    /\ script = "full" /\ pc = "bg_fetch_3"
    /\ sys' = print_to(sys, "stderr", "Block groups dataset not found, using blocks")
    /\ LET call == Call("FeatureCollection", BG_CANDIDATES[3]) IN
       \E r \in Responses(call, SimpleResponses(call)) :
          /\ env' = Recorded(call, r)
          /\ opLog' = Logged(call, r)
          /\ IF r.raised
             THEN gen_failed(r.msg) /\ UNCHANGED layer
             ELSE /\ layer' = FeatureCollection(BG_CANDIDATES[3])
                  /\ pc' = "bg_style"
                  /\ UNCHANGED result
    /\ UNCHANGED <<script, run, history, dumps, session, exitCode, results>>

\* get_block_groups_layer: block_groups.style(...)
F_bg_style ==
    /\ script = "full" /\ pc = "bg_style"
    /\ LET call == Call("style", layer.dataset) IN
       \E r \in Responses(call, SimpleResponses(call)) :
          /\ env' = Recorded(call, r)
          /\ opLog' = Logged(call, r)
          /\ IF r.raised
             THEN gen_failed(r.msg) /\ UNCHANGED layer
             ELSE /\ layer' = style(layer, BG_COLOR)
                  /\ pc' = "bg_getMapId"
                  /\ UNCHANGED result
    /\ UNCHANGED <<script, run, history, dumps, session, sys, exitCode, results>>

\* generate_tile_urls: bg_layer.getMapId(), results['block_groups'] and
\* the returned dict
F_bg_getMapId ==
    /\ script = "full" /\ pc = "bg_getMapId"
    /\ LET call == Call("getMapId", layer.dataset) IN
       \E r \in Responses(call, GetMapIdResponses(call)) :
          /\ env' = Recorded(call, r)
          /\ opLog' = Logged(call, r)
          /\ IF r.raised
             THEN gen_failed(r.msg) /\ UNCHANGED <<results, sys>>
             ELSE LET tr == tile_result(r.value) IN
                  IF tr.raised
                  THEN gen_failed(tr.msg) /\ UNCHANGED <<results, sys>>
                  ELSE /\ results' = setitem(results, "block_groups",
                                        PyDict(<< <<"tile_url", tr.tile_url>>,
                                                  <<"map_id", tr.map_id>> >>))
                       /\ sys' = print_to(sys, "stderr", "Block groups tile URL generated")
                       /\ result' = << <<"success", PyBool(TRUE)>>,
                                       <<"data", PyDict(results')>> >>
                       /\ pc' = "report"
    /\ UNCHANGED <<script, run, history, dumps, session, exitCode, layer>>

\* the printed dict with the block-group map id read from the tracts entry
output_copied(res) ==
    LET data == getitem(res, "data").d IN
    << <<"success", PyBool(TRUE)>>,
       <<"tracts_tile_url", getitem(getitem(data, "tracts").d, "tile_url")>>,
       <<"tracts_map_id", getitem(getitem(data, "tracts").d, "map_id")>>,
       <<"block_groups_tile_url", getitem(getitem(data, "block_groups").d, "tile_url")>>,
       <<"block_groups_map_id", getitem(getitem(data, "tracts").d, "map_id")>> >>

\* main: the dict printed on success
output(res) ==
    LET data == getitem(res, "data").d IN
    << <<"success", PyBool(TRUE)>>,
       <<"tracts_tile_url", getitem(getitem(data, "tracts").d, "tile_url")>>,
       <<"tracts_map_id", getitem(getitem(data, "tracts").d, "map_id")>>,
       <<"block_groups_tile_url", getitem(getitem(data, "block_groups").d, "tile_url")>>,
       <<"block_groups_map_id", getitem(getitem(data, "block_groups").d, "map_id")>> >>

\* main printing the failure result as JSON too
F_main_report_dumps_failure ==
    /\ script = "full" /\ pc = "report"
    /\ IF getitem(result, "success").b
       THEN /\ sys' = print_to(print_to(sys, "stderr",
                                        "\nAll tile URLs generated successfully\n"),
                               "stdout", json_dumps(output(result)))
            /\ dumps' = dumps + 1
            /\ exitCode' = 0
       ELSE /\ sys' = print_to(print_to(sys, "stderr",
                                        "\nFailed to generate tile URLs: "
                                        \o getitem(result, "error").s \o "\n"),
                               "stdout", json_dumps(result))
            /\ dumps' = dumps + 1
            /\ exitCode' = 1
    /\ pc' = "done"
    /\ UNCHANGED <<script, run, history, env, session, opLog, layer, results, result>>

\* main: the branch on result['success']
F_main_report ==
    /\ script = "full" /\ pc = "report"
    /\ IF getitem(result, "success").b
       THEN /\ sys' = print_to(print_to(sys, "stderr",
                                        "\nAll tile URLs generated successfully\n"),
                               "stdout", json_dumps(output(result)))
            /\ dumps' = dumps + 1
            /\ exitCode' = 0
       ELSE /\ sys' = print_to(sys, "stderr",
                               "\nFailed to generate tile URLs: "
                               \o getitem(result, "error").s \o "\n")
            /\ exitCode' = 1
            /\ UNCHANGED dumps
    /\ pc' = "done"
    /\ UNCHANGED <<script, run, history, env, session, opLog, layer, results, result>>

(* ------------------------- running it again --------------------------- *)
\* if __name__ == '__main__': main(), entered again in the same process
\* against the same responses; the finished run's stdout and exit code are
\* kept, the module-level state (ee's session) carries over
Rerun ==
    /\ pc = "done" /\ run < MaxRuns
    /\ history' = Append(history, [stdout |-> sys.stdout, exitCode |-> exitCode])
    /\ run' = run + 1
    /\ pc' = "credentials"
    /\ opLog' = <<>>
    /\ sys' = [stdout |-> <<>>, stderr |-> <<>>]
    /\ exitCode' = Running
    /\ layer' = NoLayer
    /\ results' = <<>>
    /\ result' = <<>>
    /\ dumps' = 0
    /\ UNCHANGED <<script, env, session>>

Next ==
    \/ ServiceAccountCredentials
    \/ Initialize
    \/ S_tracts_fetch
    \/ S_tracts_style
    \/ S_getMapId
    \/ S_main_report
    \/ F_tracts_fetch
    \/ F_tracts_style
    \/ F_tracts_getMapId
    \/ F_bg_fetch_BG
    \/ F_bg_fetch_BlockGroups
    \/ F_bg_fetch_Blocks
    \/ F_bg_style
    \/ F_bg_getMapId
    \/ F_main_report
    \/ Rerun

Spec == Init /\ [][Next]_vars

(* ------------------- vocabulary of the properties --------------------- *)
Done == pc = "done"
BgDatasets == { BG_CANDIDATES[i] : i \in DOMAIN BG_CANDIDATES }
IsAuthOp(e) == e.op \in {"ServiceAccountCredentials", "Initialize"}
IsLayerOp(e) == e.op \in {"FeatureCollection", "style", "getMapId"}
IsBgOp(e) == IsLayerOp(e) /\ e.arg \in BgDatasets
AuthFailed == \E i \in DOMAIN opLog : IsAuthOp(opLog[i]) /\ opLog[i].raised
AuthSucceeded == \E i \in DOMAIN opLog : opLog[i].op = "Initialize" /\ ~opLog[i].raised

\* getMapId was called on the layer of dataset ds and returned a dict
Answered(ds) ==
    \E i \in DOMAIN opLog : opLog[i] = [op |-> "getMapId", arg |-> ds, raised |-> FALSE]
MapDict(ds) == env[Call("getMapId", ds)].value
\* the dict carries a tile fetcher with a URL template
HasUrl(d) ==
    \E i \in DOMAIN d :
       /\ d[i][1] = "tile_fetcher"
       /\ \E j \in DOMAIN d[i][2].attrs : d[i][2].attrs[j][1] = "url_format"
HasMapId(d) == \E i \in DOMAIN d : d[i][1] = "mapid"
UrlIn(d) ==
    LET tf == d[CHOOSE i \in DOMAIN d : d[i][1] = "tile_fetcher"][2].attrs
    IN tf[CHOOSE j \in DOMAIN tf : tf[j][1] = "url_format"][2].s
MapIdIn(d) ==
    IF HasMapId(d) THEN d[CHOOSE i \in DOMAIN d : d[i][1] = "mapid"][2].s ELSE "unknown"

\* a layer resolved: its getMapId returned a dict that carries a URL template
Resolved(ds) == Answered(ds) /\ HasUrl(MapDict(ds))
TractsResolved == Resolved(TRACTS_DATASET)
BgResolved == \E ds \in BgDatasets : Resolved(ds)
\* the block-group dataset whose layer was handed to getMapId
BgDataset == CHOOSE ds \in BgDatasets : Answered(ds)
\* a layer failed: one of its operations raised for good, or its dict has no URL
TractsFailed ==
    \E i \in DOMAIN opLog :
       /\ opLog[i].arg = TRACTS_DATASET
       /\ \/ opLog[i].raised
          \/ opLog[i].op = "getMapId" /\ ~HasUrl(MapDict(TRACTS_DATASET))
BgFailed ==
    \E i \in DOMAIN opLog :
       /\ opLog[i].arg \in BgDatasets
       /\ \/ opLog[i].raised /\ opLog[i].op # "FeatureCollection"
          \/ opLog[i].raised /\ opLog[i].arg = BG_CANDIDATES[3]
          \/ opLog[i].op = "getMapId" /\ ~opLog[i].raised /\ ~HasUrl(MapDict(opLog[i].arg))

Keys(d) == [i \in DOMAIN d |-> d[i][1]]
ResultIsSuccess == \E i \in DOMAIN result : result[i] = <<"success", PyBool(TRUE)>>
ResultIsFailure == \E i \in DOMAIN result : result[i] = <<"success", PyBool(FALSE)>>

\* the documents of section 6, pretty-printed with an indent of two
ExpectedSingle(T, M) ==
    "{\n  \"success\": true,\n  \"tile_url\": \"" \o T
    \o "\",\n  \"map_id\": \"" \o M \o "\"\n}"
ExpectedFull(T1, M1, T2, M2) ==
    "{\n  \"success\": true,\n  \"tracts_tile_url\": \"" \o T1
    \o "\",\n  \"tracts_map_id\": \"" \o M1
    \o "\",\n  \"block_groups_tile_url\": \"" \o T2
    \o "\",\n  \"block_groups_map_id\": \"" \o M2 \o "\"\n}"
AnyMapId == MapIds \cup {"unknown"}
SuccessDocuments ==
    { ExpectedSingle(T, M) : T \in Urls, M \in AnyMapId }
    \cup { ExpectedFull(T[1], M[1], T[2], M[2]) : T \in Urls \X Urls, M \in AnyMapId \X AnyMapId }

Count(P(_)) == Cardinality({ i \in DOMAIN opLog : P(opLog[i]) })

(* ------------------------------- C1 ----------------------------------- *)
\* C1: in both scripts, once authentication has failed in a run, the run
\* has ended with exit code 1, no layer operation (fetch, style, getMapId)
\* was invoked in it and nothing was written to standard output.
C1_AuthFailureShortCircuits ==
    AuthFailed =>
       /\ Done /\ exitCode = 1
       /\ \A i \in DOMAIN opLog : ~IsLayerOp(opLog[i])
       /\ sys.stdout = <<>>
       /\ result = <<>>

C1_Witness ==
    /\ Done /\ AuthFailed
    /\ opLog[Len(opLog)] = [op |-> "Initialize", arg |-> PROJECT_ID, raised |-> TRUE]

(* ------------------------------- C2 ----------------------------------- *)
\* C2: in the dual-layer script the result is success-shaped exactly when
\* authentication succeeded and both layers resolved; when a layer failed
\* the result is {success: false, error}, nothing is on stdout, and no
\* tile URL or map id of the other layer is in the result.
C2_AllOrNothing ==
    (script = "full" /\ pc \in {"report", "done"}) =>
       /\ ResultIsSuccess <=> (AuthSucceeded /\ TractsResolved /\ BgResolved)
       /\ (TractsFailed \/ BgFailed) =>
             /\ Keys(result) = <<"success", "error">>
             /\ result[1][2] = PyBool(FALSE)
             /\ result[2][2].t = "str"
             /\ result[2][2].s \notin (Urls \cup MapIds)
             /\ sys.stdout = <<>>
             /\ Done => exitCode = 1

C2_Witness ==
    /\ script = "full" /\ Done
    /\ TractsResolved /\ BgFailed
    /\ ResultIsFailure

(* ------------------------------- C3 ----------------------------------- *)
\* C3: when a run has ended, its exit code is 0 exactly when stdout holds
\* exactly one JSON document and 1 exactly when stdout is empty; at every
\* moment stdout holds nothing but that document, and the diagnostic lines
\* are on stderr only.
C3_ExitCodeMatchesStdout ==
    /\ \A i \in DOMAIN sys.stdout : sys.stdout[i] \in SuccessDocuments
    /\ \A i \in DOMAIN sys.stdout : \A j \in DOMAIN sys.stderr : sys.stdout[i] # sys.stderr[j]
    /\ Done =>
          /\ exitCode \in {0, 1}
          /\ exitCode = 0 <=> Len(sys.stdout) = 1
          /\ exitCode = 1 <=> sys.stdout = <<>>
          /\ sys.stderr # <<>>

C3_Witness ==
    /\ Done /\ exitCode = 0
    /\ Len(sys.stdout) = 1
    /\ Len(sys.stderr) >= 2

(* ------------------------------- C4 ----------------------------------- *)
\* C4 as stated: every run, however it ends, has serialized the run result
\* to JSON exactly once.
C4_SerializedOnceInEveryRun == Done => dumps = 1

\* C4 amended: a run serializes to JSON at most once; a run that ends in
\* success has serialized its result exactly once, and a run that ends in
\* an authentication failure or a layer failure has serialized nothing.
C4_SerializedOnceOnSuccessOnly ==
    /\ dumps <= 1
    /\ Done => dumps = (IF exitCode = 0 THEN 1 ELSE 0)
    /\ (Done /\ (AuthFailed \/ ResultIsFailure)) => dumps = 0

C4_Witness ==
    /\ Done /\ ResultIsFailure
    /\ exitCode = 1 /\ dumps = 0

(* ------------------------------- C5 ----------------------------------- *)
\* C5: the block-group candidates are fetched in the order BG, BlockGroups,
\* Blocks_DP1, each only after the one before it raised, and the layer
\* that is styled is the first candidate whose fetch did not raise.
BgFetches ==
    LET IsBgFetch(e) == e.op = "FeatureCollection" /\ e.arg \in BgDatasets
    IN SelectSeq(opLog, IsBgFetch)

C5_FallbackOrder ==
    script = "full" =>
       /\ Len(BgFetches) <= Len(BG_CANDIDATES)
       /\ \A i \in DOMAIN BgFetches :
             /\ BgFetches[i].arg = BG_CANDIDATES[i]
             /\ i < Len(BgFetches) => BgFetches[i].raised
       /\ \A j \in DOMAIN opLog :
             (opLog[j].op = "style" /\ opLog[j].arg \in BgDatasets) =>
                /\ ~BgFetches[Len(BgFetches)].raised
                /\ opLog[j].arg = BgFetches[Len(BgFetches)].arg
                /\ layer.dataset = opLog[j].arg

C5_Witness ==
    /\ script = "full" /\ Done
    /\ Len(BgFetches) = 2
    /\ BgFetches[1].raised /\ ~BgFetches[2].raised
    /\ \E j \in DOMAIN opLog : opLog[j].op = "style" /\ opLog[j].arg = BG_CANDIDATES[2]

(* ------------------------------- C6 ----------------------------------- *)
\* C6: in the dual-layer script, when authentication succeeded and tracts
\* resolved to (T1, M1) and block groups to (T2, M2), the run ends with
\* exit code 0 and stdout is the one object success, tracts_tile_url = T1,
\* tracts_map_id = M1, block_groups_tile_url = T2, block_groups_map_id = M2,
\* in that order.
C6_DualLayerOutput ==
    (script = "full" /\ Done /\ AuthSucceeded /\ TractsResolved /\ BgResolved) =>
       /\ exitCode = 0
       /\ sys.stdout = << ExpectedFull(UrlIn(MapDict(TRACTS_DATASET)),
                                       MapIdIn(MapDict(TRACTS_DATASET)),
                                       UrlIn(MapDict(BgDataset)),
                                       MapIdIn(MapDict(BgDataset))) >>

C6_Witness ==
    /\ script = "full" /\ Done /\ exitCode = 0
    /\ TractsResolved /\ BgResolved
    /\ UrlIn(MapDict(TRACTS_DATASET)) # UrlIn(MapDict(BgDataset))
    /\ HasMapId(MapDict(TRACTS_DATASET)) /\ HasMapId(MapDict(BgDataset))
    /\ MapIdIn(MapDict(TRACTS_DATASET)) # MapIdIn(MapDict(BgDataset))

(* ------------------------------- C7 ----------------------------------- *)
\* C7: a run of the entry point against the responses of an earlier run
\* ends with the stdout content and the exit code of that earlier run.
C7_SameResponsesSameOutput ==
    Done => \A k \in DOMAIN history :
               /\ history[k].stdout = sys.stdout
               /\ history[k].exitCode = exitCode

C7_Witness ==
    /\ Done /\ run = 2
    /\ exitCode = 0
    /\ history[1].exitCode = 0
    /\ history[1].stdout # <<>>

(* ------------------------------- C8 ----------------------------------- *)
\* C8: in the dual-layer script every block-group operation comes after a
\* tracts getMapId that returned, and once resolving tracts has failed no
\* block-group operation is performed.
C8_TractsBeforeBlockGroups ==
    script = "full" =>
       /\ \A j \in DOMAIN opLog :
             IsBgOp(opLog[j]) =>
                \E i \in 1..(j - 1) :
                   opLog[i] = [op |-> "getMapId", arg |-> TRACTS_DATASET, raised |-> FALSE]
       /\ TractsFailed => \A j \in DOMAIN opLog : ~IsBgOp(opLog[j])

C8_Witness ==
    /\ script = "full" /\ Done
    /\ \E j \in DOMAIN opLog : IsBgOp(opLog[j]) /\ opLog[j].op = "getMapId"

C8_WitnessTractsFailed ==
    /\ script = "full" /\ Done /\ TractsFailed

(* ------------------------------- C9 ----------------------------------- *)
\* C9: nothing is retried: no remote operation is issued twice in a run,
\* a finished run has attempted authentication exactly once, and an
\* authentication error or a layer's error is the last remote operation of
\* its run, which ends with exit code 1.
IsTerminalError(e) ==
    \/ e.raised /\ ~(e.op = "FeatureCollection" /\ e.arg \in {BG_CANDIDATES[1], BG_CANDIDATES[2]})
    \/ e.op = "getMapId" /\ ~e.raised /\ ~HasUrl(MapDict(e.arg))

C9_NoRetries ==
    /\ \A i, j \in DOMAIN opLog :
          (opLog[i].op = opLog[j].op /\ opLog[i].arg = opLog[j].arg) => i = j
    /\ LET IsCredentials(e) == e.op = "ServiceAccountCredentials"
           IsInitialize(e) == e.op = "Initialize"
       IN /\ Count(IsCredentials) <= 1 /\ Count(IsInitialize) <= 1
          /\ Done => Count(IsCredentials) = 1
    /\ \A i \in DOMAIN opLog :
          IsTerminalError(opLog[i]) =>
             /\ i = Len(opLog)
             /\ pc \in {"report", "done"}
             /\ Done => exitCode = 1

C9_Witness ==
    /\ script = "full" /\ Done /\ exitCode = 1
    /\ Len(opLog) >= 6
    /\ opLog[Len(opLog)].raised

(* ------------------------------- C10 ---------------------------------- *)
\* C10: a getMapId dict without 'mapid' does not fail the layer, whose map
\* id is then 'unknown', and the run can end in success; a dict without the
\* tile fetcher or its URL template fails the layer; the output of a
\* successful run carries each layer's tile URL as the platform gave it.
LayerDatasets == {TRACTS_DATASET} \cup (IF script = "full" THEN BgDatasets ELSE {})

C10_MapIdDefaultsUrlRequired ==
    (pc \in {"report", "done"}) =>
       /\ \A ds \in LayerDatasets :
             (Answered(ds) /\ ~HasUrl(MapDict(ds))) =>
                /\ ResultIsFailure
                /\ sys.stdout = <<>>
                /\ Done => exitCode = 1
       /\ (Done /\ exitCode = 0) =>
             IF script = "single"
             THEN /\ Resolved(TRACTS_DATASET)
                  /\ sys.stdout = << ExpectedSingle(UrlIn(MapDict(TRACTS_DATASET)),
                                       IF HasMapId(MapDict(TRACTS_DATASET))
                                       THEN MapIdIn(MapDict(TRACTS_DATASET))
                                       ELSE UNKNOWN_MAP_ID) >>
             ELSE /\ Resolved(TRACTS_DATASET) /\ BgResolved
                  /\ \A ds \in {TRACTS_DATASET, BgDataset} :
                        LET name == IF ds = TRACTS_DATASET THEN "tracts" ELSE "block_groups"
                            tile == getitem(results, name).d
                        IN /\ getitem(tile, "tile_url") = PyStr(UrlIn(MapDict(ds)))
                           /\ getitem(tile, "map_id") =
                                 (IF HasMapId(MapDict(ds))
                                  THEN PyStr(MapIdIn(MapDict(ds)))
                                  ELSE PyStr(UNKNOWN_MAP_ID))
       /\ (/\ Done
           /\ Resolved(TRACTS_DATASET)
           /\ script = "full" => BgResolved) => exitCode = 0

C10_Witness ==
    /\ Done /\ exitCode = 0
    /\ script = "single"
    /\ ~HasMapId(MapDict(TRACTS_DATASET))

C10_WitnessFull ==
    /\ Done /\ exitCode = 0
    /\ script = "full"
    /\ ~HasMapId(MapDict(BgDataset))
    /\ HasMapId(MapDict(TRACTS_DATASET))
=============================================================================
